---- MODULE Spec2Model ----
\* UWSProvider: connection registry, heartbeat sweep and clustered fan-out
\* (local uWebSockets topics, optionally relayed through a Redis backbone).
\* Every provider process runs a single event loop, so each callback below is
\* one atomic action.
EXTENDS Integers, Sequences, FiniteSets, TLC

\* ---------------------------------------------------------------- bounds
NumProcs == 2       \* provider processes sharing one backbone
NumWS == 2          \* transport connections that may ever open
NumIds == 2         \* distinct values generateUUID may return
MaxMsgs == 1        \* broadcast calls (toAll / to) made in a behaviour
MaxHandlers == 2    \* onConnection registrations per provider

Proc == 1..NumProcs
WS == 1..NumWS
Ids == 1..NumIds
Msgs == 1..MaxMsgs
NoWS == 0
NoId == 0
NoProc == 0

\* ---------------------------------------------------------------- strings
\* A string is the sequence of its characters, so that substr and the
\* channel prefix are computed, not assumed.
ALL == <<"a">>                      \* the topic and channel 'a'
GroupPrefix == <<"g", ".">>         \* `g.${group}`
GroupNames == { << >>, <<"a">>, <<"x">> }   \* group names an application may use

\* Mutant of substr: off by one, the character before start is kept.
substrFromBefore(s, start) == SubSeq(s, start, Len(s))

\* String.prototype.substr(start): the characters from index start on.
substr(s, start) == SubSeq(s, start + 1, Len(s))

\* The backbone channel toAll publishes on.
AllChannel == ALL

\* The backbone channel to(group, ...) publishes on.
GroupChannel(group) == GroupPrefix \o group

\* Redis glob match of a channel against the pattern 'g.*' of psubscribe.
MatchesGroupPattern(channel) ==
    /\ Len(channel) >= Len(GroupPrefix)
    /\ SubSeq(channel, 1, Len(GroupPrefix)) = GroupPrefix

\* The channels the subscriber connection is subscribed to by name.
SubscribedChannels == { ALL }

\* Mutant of OpenTopics: the open callback forgets ws.subscribe('a').
OpenTopicsNone == { }

\* The topics the open callback subscribes a new socket to.
OpenTopics == { ALL }

\* ---------------------------------------------------------------- state
VARIABLES
    pub,            \* BOOLEAN: this._pub / this._sub exist (options.redisUrl is
                    \* set); the providers of one deployment share their options
    connections,    \* [Proc -> [Ids -> WS \cup {NoWS}]]: this._connections
    keys,           \* [Proc -> Seq(Ids)]: Object.keys(this._connections), the
                    \* identities in the registry in the order they were added
    handlers,       \* [Proc -> Seq(Nat)]: this._handlers, k = k-th registered handler
    timers,         \* [Proc -> Nat]: pending setTimeout sweeps
    wsState,        \* [WS -> {"new","open","closed"}]: transport connection state
    wsHost,         \* [WS -> Proc \cup {NoProc}]: process that accepted the connection
    wsId,           \* [WS -> Ids \cup {NoId}]: ws.id
    wsAlive,        \* [WS -> BOOLEAN]: ws.alive
    wsTopics,       \* [WS -> SUBSET topics]: uWS topic subscriptions of the socket
    calls,          \* sequence of broadcast calls made; a message is its index
    redis,          \* backbone messages in flight: [msg, channel, to]
    received,       \* [WS -> [Msgs -> Nat]]: frames of each message pushed to a socket
    joined,         \* [WS -> SUBSET GroupNames]: groups the application joined it to
    probe,          \* [WS -> {"none","sent","answered","sentAgain"}]: "sent" and
                    \* "sentAgain" = the latest ping is unanswered (the second
                    \* after an answered one), "answered" = a pong answered it
    closedBy,       \* [WS -> {"none","transport","heartbeat","application"}]:
                    \* who closed the socket
    invoked,        \* [WS -> Seq(Nat)]: handlers the open callback invoked for it
    caught,         \* [WS -> BOOLEAN]: the open callback caught a handler's exception
    console         \* the latest console.error

vars == << pub, connections, keys, handlers, timers, wsState, wsHost, wsId, wsAlive,
           wsTopics, calls, redis, received, joined, probe, closedBy, invoked,
           caught, console >>

ghostVars == << probe, closedBy, invoked, caught >>

wsVars == << wsState, wsHost, wsId, wsAlive, wsTopics >>

Init ==
    /\ pub \in BOOLEAN
    /\ connections = [p \in Proc |-> [i \in Ids |-> NoWS]]
    /\ keys = [p \in Proc |-> << >>]
    /\ handlers = [p \in Proc |-> << >>]
    /\ timers = [p \in Proc |-> 1]
    /\ wsState = [w \in WS |-> "new"]
    /\ wsHost = [w \in WS |-> NoProc]
    /\ wsId = [w \in WS |-> NoId]
    /\ wsAlive = [w \in WS |-> FALSE]
    /\ wsTopics = [w \in WS |-> {}]
    /\ calls = << >>
    /\ redis = {}
    /\ received = [w \in WS |-> [m \in Msgs |-> 0]]
    /\ joined = [w \in WS |-> {}]
    /\ probe = [w \in WS |-> "none"]
    /\ closedBy = [w \in WS |-> "none"]
    /\ invoked = [w \in WS |-> << >>]
    /\ caught = [w \in WS |-> FALSE]
    /\ console = "none"

\* ---------------------------------------------------------------- helpers
\* The connection is in the registry of its process under its own identity.
Registered(w) ==
    /\ wsHost[w] # NoProc
    /\ wsId[w] # NoId
    /\ connections[wsHost[w]][wsId[w]] = w

\* The identities in the registry of process p.
RegisteredIds(p) == { i \in Ids : connections[p][i] # NoWS }

\* The sockets of process p that uWS delivers a publish on topic to.
Subscribers(p, topic) ==
    { w \in WS : wsState[w] = "open" /\ wsHost[w] = p /\ topic \in wsTopics[w] }

\* this._app.publish(topic, message): one frame to every subscriber of topic.
AppPublish(p, topic, m) ==
    received' = [w \in WS |->
                   IF w \in Subscribers(p, topic)
                   THEN [received[w] EXCEPT ![m] = @ + 1]
                   ELSE received[w]]

\* The handlers the forEach of the open callback invokes, given the set of
\* handlers that throw for this connection: all of them up to and including
\* the first one that throws (the try block wraps the whole forEach).
RECURSIVE InvokedFrom(_, _, _)
InvokedFrom(hs, k, throwers) ==
    IF k > Len(hs) THEN << >>
    ELSE IF hs[k] \in throwers THEN << hs[k] >>
    ELSE << hs[k] >> \o InvokedFrom(hs, k + 1, throwers)

RunHandlers(hs, throwers) == InvokedFrom(hs, 1, throwers)

\* ---------------------------------------------------------------- transport callbacks
\* open: (ws) => { ... }; id is what generateUUID returns.
Open(p, w, id, throwers) ==
    /\ wsState[w] = "new"
    /\ wsState' = [wsState EXCEPT ![w] = "open"]
    /\ wsHost' = [wsHost EXCEPT ![w] = p]
    /\ wsTopics' = [wsTopics EXCEPT ![w] = OpenTopics]
    /\ wsId' = [wsId EXCEPT ![w] = id]
    /\ wsAlive' = [wsAlive EXCEPT ![w] = TRUE]
    /\ connections' = [connections EXCEPT ![p][id] = w]
    /\ keys' = [keys EXCEPT ![p] = IF connections[p][id] = NoWS
                                    THEN Append(@, id) ELSE @]
    /\ LET ran == RunHandlers(handlers[p], throwers)
           threw == \E k \in 1..Len(ran) : ran[k] \in throwers
       IN /\ invoked' = [invoked EXCEPT ![w] = ran]
          /\ caught' = [caught EXCEPT ![w] = threw]
          /\ console' = IF threw THEN "handlerError" ELSE console
    /\ UNCHANGED << pub, handlers, timers, calls, redis, received, joined, probe,
                    closedBy >>

\* Mutant of Pong: the callback leaves ws.alive as it is.
PongIgnored(w) ==
    /\ wsState[w] = "open"
    /\ probe' = [probe EXCEPT ![w] = IF @ \in {"sent", "sentAgain"}
                                      THEN "answered" ELSE @]
    /\ UNCHANGED << pub, connections, keys, handlers, timers, wsVars, calls, redis,
                    received, joined, closedBy, invoked, caught, console >>

\* pong: (ws) => { ws.alive = true }
Pong(w) ==
    /\ wsState[w] = "open"
    /\ wsAlive' = [wsAlive EXCEPT ![w] = TRUE]
    /\ probe' = [probe EXCEPT ![w] = IF @ \in {"sent", "sentAgain"}
                                      THEN "answered" ELSE @]
    /\ UNCHANGED << pub, connections, keys, handlers, timers, wsState, wsHost, wsId,
                    wsTopics, calls, redis, received, joined, closedBy, invoked,
                    caught, console >>

\* Mutant of Message: a data frame counts as a sign of life.
MessageRevives(w) ==
    /\ wsState[w] = "open"
    /\ wsAlive' = [wsAlive EXCEPT ![w] = TRUE]
    /\ console' = IF connections[wsHost[w]][wsId[w]] # NoWS
                  THEN console
                  ELSE "unknownConnection"
    /\ UNCHANGED << pub, connections, keys, handlers, timers, wsState, wsHost, wsId,
                    wsTopics, calls, redis, received, joined, ghostVars >>

\* message: (ws, buffer) => { ... }
Message(w) ==
    /\ wsState[w] = "open"
    /\ console' = IF connections[wsHost[w]][wsId[w]] # NoWS
                  THEN console
                  ELSE "unknownConnection"
    /\ UNCHANGED << pub, connections, keys, handlers, timers, wsVars, calls, redis,
                    received, joined, ghostVars >>

\* drain: (ws) => { ... }: a debug log and nothing else.
Drain(w) ==
    /\ wsState[w] = "open"
    /\ UNCHANGED vars

\* Mutant of CloseCallback: the callback empties the registry of the process.
CloseCallbackClears(conns, w) ==
    [conns EXCEPT ![wsHost[w]] = [i \in Ids |-> NoWS]]

\* Mutant of CloseCallback: the callback forgets delete this._connections[id].
CloseCallbackKeeps(conns, w) == conns

\* The registry after the close callback ran for socket w.
CloseCallback(conns, w) ==
    IF conns[wsHost[w]][wsId[w]] # NoWS
    THEN [conns EXCEPT ![wsHost[w]][wsId[w]] = NoWS]
    ELSE conns

\* The registry after the close callback ran for every socket of S.
RECURSIVE CloseAll(_, _)
CloseAll(conns, S) ==
    IF S = {} THEN conns
    ELSE LET w == CHOOSE x \in S : TRUE
         IN CloseAll(CloseCallback(conns, w), S \ {w})

\* Object.keys of the registries conns, whose entries were deleted from
\* this._connections: a deleted property is gone, the others keep their order.
KeysOf(conns) ==
    [p \in Proc |-> SelectSeq(keys[p], LAMBDA i : conns[p][i] # NoWS)]

\* The transport closes every socket of S and runs the close callback for
\* each. uWS drops the subscriptions of a closed socket, and a closed
\* uWS.WebSocket can no longer be accessed, so its fields are gone.
TransportClose(S) ==
    /\ wsState' = [w \in WS |-> IF w \in S THEN "closed" ELSE wsState[w]]
    /\ wsTopics' = [w \in WS |-> IF w \in S THEN {} ELSE wsTopics[w]]
    /\ wsHost' = [w \in WS |-> IF w \in S THEN NoProc ELSE wsHost[w]]
    /\ wsId' = [w \in WS |-> IF w \in S THEN NoId ELSE wsId[w]]
    /\ joined' = [w \in WS |-> IF w \in S THEN {} ELSE joined[w]]
    /\ invoked' = [w \in WS |-> IF w \in S THEN << >> ELSE invoked[w]]
    /\ caught' = [w \in WS |-> IF w \in S THEN FALSE ELSE caught[w]]
    /\ connections' = CloseAll(connections, S)
    /\ keys' = KeysOf(CloseAll(connections, S))

\* close: (ws) => { ... }, signalled by the transport for socket w.
Close(w) ==
    /\ wsState[w] = "open"
    /\ TransportClose({w})
    /\ wsAlive' = [wsAlive EXCEPT ![w] = FALSE]
    /\ probe' = [probe EXCEPT ![w] = "none"]
    /\ closedBy' = [closedBy EXCEPT ![w] = "transport"]
    /\ UNCHANGED << pub, handlers, timers, calls, redis, received, console >>

\* UWSSocket.join(group): subscribes the socket to the topic named group.
Join(w, group) ==
    /\ wsState[w] = "open"
    /\ wsTopics' = [wsTopics EXCEPT ![w] = @ \cup {group}]
    /\ joined' = [joined EXCEPT ![w] = @ \cup {group}]
    /\ UNCHANGED << pub, connections, keys, handlers, timers, wsState, wsHost, wsId,
                    wsAlive, calls, redis, received, ghostVars, console >>

\* ---------------------------------------------------------------- heartbeat
\* The sockets one sweep of process p probes: registered and ws.alive.
SweepPinged(p) ==
    { connections[p][i] : i \in { j \in Ids : /\ connections[p][j] # NoWS
                                              /\ wsAlive[connections[p][j]] } }

\* Mutant of SweepDisconnected: the sweep waits one more interval before it
\* disconnects a connection whose first ping is unanswered.
SweepDisconnectsLate(p) ==
    { connections[p][i] : i \in { j \in Ids : /\ connections[p][j] # NoWS
                                              /\ ~wsAlive[connections[p][j]]
                                              /\ probe[connections[p][j]] # "sent" } }

\* Mutant of SweepDisconnected: the sweep has no else branch.
SweepDisconnectsNone(p) == { }

\* The sockets one sweep of process p disconnects: registered and not ws.alive.
SweepDisconnected(p) ==
    { connections[p][i] : i \in { j \in Ids : /\ connections[p][j] # NoWS
                                              /\ ~wsAlive[connections[p][j]] } }

\* Mutant of KeepAliveSockets: the sweep also schedules a successor before it
\* processes the connections.
KeepAliveSocketsTwice(p) ==
    /\ timers[p] > 0
    /\ LET pinged == SweepPinged(p)
           dropped == SweepDisconnected(p)
       IN /\ wsAlive' = [w \in WS |-> IF w \in pinged \cup dropped THEN FALSE
                                       ELSE wsAlive[w]]
          /\ probe' = [w \in WS |->
                          IF w \in dropped THEN "none"
                          ELSE IF w \notin pinged THEN probe[w]
                          ELSE IF probe[w] = "none" THEN "sent" ELSE "sentAgain"]
          /\ closedBy' = [w \in WS |-> IF w \in dropped THEN "heartbeat"
                                        ELSE closedBy[w]]
          /\ TransportClose(dropped)
    /\ timers' = [timers EXCEPT ![p] = (@ - 1) + 2]
    /\ UNCHANGED << pub, handlers, calls, redis, received, console >>

\* The setTimeout callback of _keepAliveSockets: one sweep over the registry,
\* then the next sweep is scheduled. disconnect() closes the transport socket,
\* which runs the close callback before disconnect() returns.
KeepAliveSockets(p) ==
    /\ timers[p] > 0
    /\ LET pinged == SweepPinged(p)
           dropped == SweepDisconnected(p)
       IN /\ wsAlive' = [w \in WS |-> IF w \in pinged \cup dropped THEN FALSE
                                       ELSE wsAlive[w]]
          /\ probe' = [w \in WS |->
                          IF w \in dropped THEN "none"
                          ELSE IF w \notin pinged THEN probe[w]
                          ELSE IF probe[w] = "none" THEN "sent" ELSE "sentAgain"]
          /\ closedBy' = [w \in WS |-> IF w \in dropped THEN "heartbeat"
                                        ELSE closedBy[w]]
          /\ TransportClose(dropped)
    /\ timers' = [timers EXCEPT ![p] = (@ - 1) + 1]
    /\ UNCHANGED << pub, handlers, calls, redis, received, console >>

\* The sweep from the k-th key of the snapshot Object.keys(connections) on,
\* when the application's disconnect handler of every socket of closers
\* disconnects the other open connections of the provider. acc holds what
\* the sweep did so far: the sockets it pinged and dropped, the sockets closed
\* and the identities deleted from the registry, and whether
\* this._connections[uuid].ws() found no entry and threw.
RECURSIVE SweepFrom(_, _, _, _)
SweepFrom(p, k, closers, acc) ==
    IF k > Len(keys[p]) THEN acc
    ELSE LET uuid == keys[p][k]
             w == connections[p][uuid]
             victims == IF w \in closers
                        THEN { v \in WS \ {w} : /\ wsState[v] = "open"
                                                /\ wsHost[v] = p
                                                /\ v \notin acc.closed }
                        ELSE { }
         IN IF uuid \in acc.gone THEN [acc EXCEPT !.threw = TRUE]
            ELSE IF wsAlive[w]
            THEN SweepFrom(p, k + 1, closers,
                           [acc EXCEPT !.pinged = @ \cup {w}])
            ELSE SweepFrom(p, k + 1, closers,
                           [acc EXCEPT !.dropped = @ \cup {w},
                                       !.closed = @ \cup {w} \cup victims,
                                       !.gone = @ \cup { wsId[v] : v \in {w} \cup victims }])

\* What one whole sweep of process p does.
Sweep(p, closers) ==
    SweepFrom(p, 1, closers,
              [pinged |-> { }, dropped |-> { }, closed |-> { }, gone |-> { },
               threw |-> FALSE])

\* The setTimeout callback of _keepAliveSockets when disconnect handlers close
\* further connections. An exception leaves the callback before
\* this._keepAliveSockets() is called again.
KeepAliveSocketsClosing(p, closers) ==
    /\ timers[p] > 0
    /\ closers # { }
    /\ LET r == Sweep(p, closers)
       IN /\ wsAlive' = [w \in WS |-> IF w \in r.pinged \cup r.closed THEN FALSE
                                       ELSE wsAlive[w]]
          /\ probe' = [w \in WS |->
                          IF w \in r.closed THEN "none"
                          ELSE IF w \notin r.pinged THEN probe[w]
                          ELSE IF probe[w] = "none" THEN "sent" ELSE "sentAgain"]
          /\ closedBy' = [w \in WS |-> IF w \in r.dropped THEN "heartbeat"
                                        ELSE IF w \in r.closed THEN "application"
                                        ELSE closedBy[w]]
          /\ TransportClose(r.closed)
          /\ timers' = [timers EXCEPT ![p] = IF r.threw THEN @ - 1 ELSE (@ - 1) + 1]
          /\ console' = IF r.threw THEN "uncaughtTypeError" ELSE console
    /\ UNCHANGED << pub, handlers, calls, redis, received >>

\* ---------------------------------------------------------------- public API
\* onConnection = (handler) => { this._handlers.push(handler) }
OnConnection(p) ==
    /\ Len(handlers[p]) < MaxHandlers
    /\ handlers' = [handlers EXCEPT ![p] = Append(@, Len(@) + 1)]
    /\ UNCHANGED << pub, connections, keys, timers, wsVars, calls, redis, received,
                    joined, ghostVars, console >>

\* What Redis hands to the subscriber connection of every process for one
\* successful publish on channel.
Fanout(m, channel) ==
    { [msg |-> m, channel |-> channel, to |-> q] : q \in Proc }

\* The record of one broadcast call, with the sockets that were subscribed
\* to its target in the calling process and those already closed at the call.
Call(p, kind, group, failed) ==
    [proc |-> p, kind |-> kind, group |-> group, failed |-> failed,
     audience |-> Subscribers(p, IF kind = "all" THEN ALL ELSE group),
     closed |-> { w \in WS : wsState[w] = "closed" }]

\* Mutant of ToAll: a failed backbone publish falls back to the local topic.
ToAllFallsBack(p, ok) ==
    /\ Len(calls) < MaxMsgs
    /\ LET m == Len(calls) + 1
       IN IF pub /\ ok
          THEN /\ calls' = Append(calls, Call(p, "all", << >>, FALSE))
               /\ redis' = redis \cup Fanout(m, AllChannel)
               /\ UNCHANGED << received, console >>
          ELSE /\ calls' = Append(calls, Call(p, "all", << >>, pub))
               /\ AppPublish(p, ALL, m)
               /\ console' = IF pub THEN "redisError" ELSE console
               /\ UNCHANGED redis
    /\ UNCHANGED << pub, connections, keys, handlers, timers, wsVars, joined, ghostVars >>

\* toAll = (event, ...args) => { ... }; ok: the backbone publish succeeds.
ToAll(p, ok) ==
    /\ Len(calls) < MaxMsgs
    /\ LET m == Len(calls) + 1
       IN IF pub
          THEN /\ calls' = Append(calls, Call(p, "all", << >>, ~ok))
               /\ redis' = IF ok THEN redis \cup Fanout(m, AllChannel) ELSE redis
               /\ console' = IF ok THEN console ELSE "redisError"
               /\ UNCHANGED received
          ELSE /\ calls' = Append(calls, Call(p, "all", << >>, FALSE))
               /\ AppPublish(p, ALL, m)
               /\ UNCHANGED << redis, console >>
    /\ UNCHANGED << pub, connections, keys, handlers, timers, wsVars, joined, ghostVars >>

\* Mutant of To: with a backbone the call publishes on the backbone and on
\* the local topic as well.
ToBoth(p, group, ok) ==
    /\ Len(calls) < MaxMsgs
    /\ LET m == Len(calls) + 1
       IN /\ calls' = Append(calls, Call(p, "group", group, pub /\ ~ok))
          /\ redis' = IF pub /\ ok THEN redis \cup Fanout(m, GroupChannel(group))
                                   ELSE redis
          /\ console' = IF pub /\ ~ok THEN "redisError" ELSE console
          /\ AppPublish(p, group, m)
    /\ UNCHANGED << pub, connections, keys, handlers, timers, wsVars, joined, ghostVars >>

\* to = (group, event, ...args) => { ... }; ok: the backbone publish succeeds.
To(p, group, ok) ==
    /\ Len(calls) < MaxMsgs
    /\ LET m == Len(calls) + 1
       IN IF pub
          THEN /\ calls' = Append(calls, Call(p, "group", group, ~ok))
               /\ redis' = IF ok THEN redis \cup Fanout(m, GroupChannel(group))
                                 ELSE redis
               /\ console' = IF ok THEN console ELSE "redisError"
               /\ UNCHANGED received
          ELSE /\ calls' = Append(calls, Call(p, "group", group, FALSE))
               /\ AppPublish(p, group, m)
               /\ UNCHANGED << redis, console >>
    /\ UNCHANGED << pub, connections, keys, handlers, timers, wsVars, joined, ghostVars >>

\* ---------------------------------------------------------------- handlers that broadcast
\* Mutant of HandlerTimeTopics: the handlers run before ws.subscribe('a').
HandlerTimeTopicsNone == { }

\* The topics of the new socket when the open callback invokes the handlers:
\* ws.subscribe('a') comes before the forEach.
HandlerTimeTopics == OpenTopics

\* The open callback when the first registered handler calls toAll for the
\* new connection and no handler throws; ok: the backbone publish succeeds.
\* The handlers run after the socket was subscribed, marked alive and
\* registered, so the publish of toAll sees the new socket as it is then.
OpenBroadcasting(p, w, id, ok) ==
    /\ wsState[w] = "new"
    /\ Len(handlers[p]) > 0
    /\ Len(calls) < MaxMsgs
    /\ wsState' = [wsState EXCEPT ![w] = "open"]
    /\ wsHost' = [wsHost EXCEPT ![w] = p]
    /\ wsTopics' = [wsTopics EXCEPT ![w] = OpenTopics]
    /\ wsId' = [wsId EXCEPT ![w] = id]
    /\ wsAlive' = [wsAlive EXCEPT ![w] = TRUE]
    /\ connections' = [connections EXCEPT ![p][id] = w]
    /\ keys' = [keys EXCEPT ![p] = IF connections[p][id] = NoWS
                                    THEN Append(@, id) ELSE @]
    /\ invoked' = [invoked EXCEPT ![w] = RunHandlers(handlers[p], { })]
    /\ LET m == Len(calls) + 1
           audience == Subscribers(p, ALL)
                          \cup (IF ALL \in HandlerTimeTopics THEN {w} ELSE { })
           call == [proc |-> p, kind |-> "all", group |-> << >>,
                    failed |-> pub /\ ~ok, audience |-> audience,
                    closed |-> { v \in WS : wsState[v] = "closed" }]
       IN /\ calls' = Append(calls, call)
          /\ redis' = IF pub /\ ok THEN redis \cup Fanout(m, AllChannel) ELSE redis
          /\ console' = IF pub /\ ~ok THEN "redisError" ELSE console
          /\ received' = [v \in WS |->
                             IF ~pub /\ v \in audience
                             THEN [received[v] EXCEPT ![m] = @ + 1]
                             ELSE received[v]]
    /\ UNCHANGED << pub, handlers, timers, joined, probe, closedBy, caught >>

\* ---------------------------------------------------------------- backbone relays
\* Mutant of OnRedisMessage: the relay also forwards the message on the
\* backbone, to the group channel of the topic it publishes on.
OnRedisMessageRepublishes(q, item) ==
    /\ item \in redis
    /\ item.to = q
    /\ item.channel \in SubscribedChannels
    /\ LET channel == item.channel
       IN /\ AppPublish(q, substr(channel, 2), item.msg)
          /\ redis' = (redis \ {item})
                          \cup Fanout(item.msg, GroupChannel(substr(channel, 2)))
    /\ UNCHANGED << pub, connections, keys, handlers, timers, wsVars, calls, joined,
                    ghostVars, console >>

\* this._sub.on('message', (channel, message) => ...)
OnRedisMessage(q, item) ==
    /\ item \in redis
    /\ item.to = q
    /\ item.channel \in SubscribedChannels
    /\ LET channel == item.channel
       IN AppPublish(q, substr(channel, 2), item.msg)
    /\ redis' = redis \ {item}
    /\ UNCHANGED << pub, connections, keys, handlers, timers, wsVars, calls, joined,
                    ghostVars, console >>

\* this._sub.on('pmessage', (_channel, pattern, message) => ...): ioredis
\* passes the matched pattern first and the channel second, so the parameter
\* the code names pattern holds the channel.
OnRedisPMessage(q, item) ==
    /\ item \in redis
    /\ item.to = q
    /\ MatchesGroupPattern(item.channel)
    /\ LET pattern == item.channel
           group == substr(pattern, 2)
       IN AppPublish(q, group, item.msg)
    /\ redis' = redis \ {item}
    /\ UNCHANGED << pub, connections, keys, handlers, timers, wsVars, calls, joined,
                    ghostVars, console >>

\* ---------------------------------------------------------------- specifications
Channels == { AllChannel } \cup { GroupChannel(g) : g \in GroupNames }
Items == [msg : Msgs, channel : Channels, to : Proc]

\* The transport's connection callbacks.
Lifecycle ==
    \/ \E p \in Proc, w \in WS, id \in Ids, throwers \in SUBSET (1..MaxHandlers) :
          Open(p, w, id, throwers)
    \/ \E w \in WS : Message(w)
    \/ \E w \in WS : Drain(w)
    \/ \E w \in WS : Close(w)
    \/ \E w \in WS, g \in GroupNames : Join(w, g)

\* The heartbeat timer and the pongs that answer its pings.
Heartbeat ==
    \/ \E w \in WS : Pong(w)
    \/ \E p \in Proc : KeepAliveSockets(p)

\* The broadcast calls and the backbone's deliveries.
Broadcast ==
    \/ \E p \in Proc, ok \in BOOLEAN : ToAll(p, ok)
    \/ \E p \in Proc, g \in GroupNames, ok \in BOOLEAN : To(p, g, ok)
    \/ \E q \in Proc, item \in Items : OnRedisMessage(q, item)
    \/ \E q \in Proc, item \in Items : OnRedisPMessage(q, item)

\* The application registers its connection handlers.
Registration == \E p \in Proc : OnConnection(p)

Next == Lifecycle \/ Heartbeat \/ Broadcast \/ Registration

\* The whole provider.
Spec == Init /\ [][Next]_vars

\* The three concerns of the provider, each with the connection callbacks.
\* The heartbeat reads and writes ws.alive and closes sockets, which Close
\* does as well; the broadcasts read the sockets' topics and write none of the
\* registry; the handlers are only run by the open callback. Each concern is
\* checked in its own specification, whose state space is small enough to
\* search completely.

\* Connections and broadcasts.
BroadcastNext == Lifecycle \/ Broadcast
BroadcastSpec == Init /\ [][BroadcastNext]_vars

\* Connections and handler registration.
HandlerNext == Lifecycle \/ Registration
HandlerSpec == Init /\ [][HandlerNext]_vars

\* Connections and heartbeat.
HeartbeatNext == Lifecycle \/ Heartbeat
HeartbeatSpec == Init /\ [][HeartbeatNext]_vars

\* The timer of every provider fires: setTimeout always runs its callback.
FairSpec == HeartbeatSpec /\ \A p \in Proc : WF_vars(KeepAliveSockets(p))

\* Connections and heartbeat, with disconnect handlers that close connections.
SweepHandlerNext ==
    \/ HeartbeatNext
    \/ \E p \in Proc, closers \in SUBSET WS : KeepAliveSocketsClosing(p, closers)
SweepHandlerSpec == Init /\ [][SweepHandlerNext]_vars

\* Every callback and operation of the provider, for connections that join no
\* group, handlers that do not throw and broadcasts to ALL and to the group
\* "x": what the registry and ws.alive depend on.
FrameNext ==
    \/ \E p \in Proc, w \in WS, id \in Ids : Open(p, w, id, { })
    \/ \E w \in WS : Message(w)
    \/ \E w \in WS : Drain(w)
    \/ \E w \in WS : Close(w)
    \/ Heartbeat
    \/ \E p \in Proc, ok \in BOOLEAN : ToAll(p, ok)
    \/ \E p \in Proc, ok \in BOOLEAN : To(p, <<"x">>, ok)
    \/ \E q \in Proc, item \in Items : OnRedisMessage(q, item)
    \/ \E q \in Proc, item \in Items : OnRedisPMessage(q, item)
    \/ Registration
FrameSpec == Init /\ [][FrameNext]_vars

\* Connections that join no group, and handlers, the first of which may
\* broadcast to ALL.
HandlerBroadcastNext ==
    \/ \E p \in Proc, w \in WS, id \in Ids, throwers \in SUBSET (1..MaxHandlers) :
          Open(p, w, id, throwers)
    \/ \E w \in WS : Message(w)
    \/ \E w \in WS : Drain(w)
    \/ \E w \in WS : Close(w)
    \/ Registration
    \/ \E p \in Proc, w \in WS, id \in Ids, ok \in BOOLEAN :
          OpenBroadcasting(p, w, id, ok)
    \/ \E q \in Proc, item \in Items : OnRedisMessage(q, item)
HandlerBroadcastSpec == Init /\ [][HandlerBroadcastNext]_vars

\* ---------------------------------------------------------------- broadcast claims
\* C1: with a backbone, the relay of a broadcast to ALL delivers the message
\* once to every connection registered in the relaying process, whichever
\* process made the call.
C1_AllRelayReachesEveryConnection ==
    [][\A q \in Proc, item \in Items :
          (pub /\ OnRedisMessage(q, item) /\ calls[item.msg].kind = "all")
          => \A w \in WS :
                (Registered(w) /\ wsHost[w] = q)
                => received'[w][item.msg] = received[w][item.msg] + 1]_vars

\* C2: without a backbone, toAll delivers the message exactly once to every
\* connection registered at the call and to no closed connection, and no
\* later step delivers it again.
C2_LocalAllExactlyOnce ==
    [][/\ \A p \in Proc :
             (~pub /\ \E ok \in BOOLEAN : ToAll(p, ok))
             => \A w \in WS :
                   /\ (Registered(w) /\ wsHost[w] = p)
                      => received'[w][Len(calls) + 1] = 1
                   /\ wsState[w] = "closed" => received'[w][Len(calls) + 1] = 0
       /\ \A m \in 1..Len(calls) :
             (~pub /\ calls[m].kind = "all")
             => \A w \in WS : received'[w][m] = received[w][m]]_vars

\* Witness of C2: without a backbone two connections registered in the calling
\* process have each received the broadcast to ALL once.
C2_Witness ==
    /\ ~pub
    /\ Len(calls) = 1
    /\ calls[1].kind = "all"
    /\ \E w1, w2 \in WS :
          /\ w1 # w2
          /\ Registered(w1) /\ wsHost[w1] = calls[1].proc /\ received[w1][1] = 1
          /\ Registered(w2) /\ wsHost[w2] = calls[1].proc /\ received[w2][1] = 1

\* C3: a message broadcast to group g reaches only connections that joined g,
\* for every group name g, with and without a backbone.
C3_GroupOnlyToJoined ==
    [][\A w \in WS, m \in Msgs :
          (/\ m <= Len(calls')
           /\ calls'[m].kind = "group"
           /\ received'[w][m] > received[w][m])
          => calls'[m].group \in joined[w]]_vars

\* C4: no broadcast call is delivered twice to a connection, and with a
\* backbone the call itself delivers nothing locally: only the relays do.
C4_NeverTwice ==
    /\ [](\A w \in WS, m \in Msgs : received[w][m] <= 1)
    /\ [][(pub /\ Len(calls') > Len(calls)) => received' = received]_vars

\* Witness of C4: with a backbone a connection of the originating process has
\* received the broadcast through the relay.
C4_Witness ==
    /\ pub
    /\ \E w \in WS, m \in 1..Len(calls) :
          /\ wsState[w] = "open"
          /\ wsHost[w] = calls[m].proc
          /\ received[w][m] = 1

\* ---------------------------------------------------------------- heartbeat claims
\* A ping sent to the socket is unanswered.
Owes(w) == probe[w] \in {"sent", "sentAgain"}

C6_ResponsiveSurvives ==
    [][\A p \in Proc, w \in WS :
          (KeepAliveSockets(p) /\ wsState[w] = "open" /\ ~Owes(w))
          => wsState'[w] = "open"]_vars

\* Witness of C6: a connection answered a ping, passed the next sweep and was
\* pinged again.
C6_Witness == \E w \in WS : wsState[w] = "open" /\ probe[w] = "sentAgain"

\* ---------------------------------------------------------------- handler claims
\* C7: the open callback invokes every registered handler for the new
\* connection, also after one of them threw, and registers the connection.
C7_AllHandlersRun ==
    [][\A p \in Proc, w \in WS, id \in Ids, throwers \in SUBSET (1..MaxHandlers) :
          Open(p, w, id, throwers)
          => /\ invoked'[w] = handlers[p]
             /\ connections'[p][id] = w]_vars

\* ---------------------------------------------------------------- close and failure claims
\* C8: a closed connection is in no registry, the close callback leaves no
\* entry under its identity, and nothing is delivered to it afterwards.
C8_ClosedIsGone ==
    /\ [](\A w \in WS : wsState[w] = "closed"
             => \A p \in Proc, i \in Ids : connections[p][i] # w)
    /\ [][\A w \in WS : Close(w) => connections'[wsHost[w]][wsId[w]] = NoWS]_vars
    /\ [][\A w \in WS : wsState[w] = "closed" => received'[w] = received[w]]_vars

\* Witness of C8: a broadcast to ALL made after a connection closed reached
\* another connection and not the closed one.
C8_Witness ==
    \E m \in 1..Len(calls), w \in WS, w2 \in WS :
        /\ calls[m].kind = "all"
        /\ w \in calls[m].closed
        /\ received[w][m] = 0
        /\ received[w2][m] = 1

\* C9 as claimed: a broadcast whose backbone publish fails is still delivered
\* to the matching connections of the calling process.
C9_FailedPublishFallsBack ==
    [][\A p \in Proc :
          (pub /\ (ToAll(p, FALSE) \/ \E g \in GroupNames : To(p, g, FALSE)))
          => \A w \in calls'[Len(calls')].audience :
                received'[w][Len(calls')] = 1]_vars

\* C9 as amended: a failed backbone publish is logged and the message is
\* dropped: it reaches no connection, those of the calling process included,
\* and is not on the backbone.
C9_FailedPublishIsDropped ==
    /\ [](\A m \in 1..Len(calls) :
             calls[m].failed
             => /\ \A w \in WS : received[w][m] = 0
                /\ \A item \in redis : item.msg # m)
    /\ [][\A p \in Proc :
             (pub /\ (ToAll(p, FALSE) \/ \E g \in GroupNames : To(p, g, FALSE)))
             => console' = "redisError"]_vars

\* Witness of C9: the backbone publish of a broadcast to ALL failed while a
\* connection of the calling process was subscribed, and it received nothing.
C9_Witness ==
    \E m \in 1..Len(calls) :
        /\ calls[m].failed
        /\ calls[m].kind = "all"
        /\ calls[m].audience # {}
        /\ \A w \in calls[m].audience : wsState[w] = "open" /\ received[w][m] = 0

\* C10: a broadcast to group g travels on the channel "g." followed by g, and
\* the relay of every process delivers it to exactly the local subscribers of
\* the topic g.
C10_GroupChannelRoundTrip ==
    /\ [](\A item \in redis :
             calls[item.msg].kind = "group"
             => item.channel = <<"g", ".">> \o calls[item.msg].group)
    /\ [][\A q \in Proc, item \in Items :
             OnRedisPMessage(q, item)
             => \A w \in WS :
                   received'[w][item.msg] =
                      received[w][item.msg]
                      + (IF w \in Subscribers(q, calls[item.msg].group)
                         THEN 1 ELSE 0)]_vars

\* Witness of C10: with a backbone a connection that joined the group "x"
\* received a broadcast to "x" through the relay.
C10_Witness ==
    /\ pub
    /\ \E m \in 1..Len(calls), w \in WS :
          /\ calls[m].kind = "group"
          /\ calls[m].group = <<"x">>
          /\ <<"x">> \in joined[w]
          /\ received[w][m] = 1

\* ---------------------------------------------------------------- relay claims
\* C11: the inbound relays never publish on the backbone: only a broadcast
\* call puts messages on it, one publish (one delivery per process) for the
\* call, and every relay step only consumes the delivery it handles.
C11_RelayNeverPublishes ==
    /\ [][Len(calls') = Len(calls) => redis' \subseteq redis]_vars
    /\ [][Len(calls') > Len(calls)
             => /\ redis \subseteq redis'
                /\ (redis' \ redis) \in
                      { {} } \cup { Fanout(Len(calls'), ch) : ch \in Channels }]_vars
    /\ [][\A q \in Proc, item \in Items :
             (OnRedisMessage(q, item) \/ OnRedisPMessage(q, item))
             => redis' = redis \ {item}]_vars

\* Witness of C11: with a backbone a broadcast was published and every process
\* has relayed its delivery: nothing is left on the backbone.
C11_Witness ==
    /\ pub
    /\ Len(calls) = 1
    /\ ~calls[1].failed
    /\ redis = {}

C13_OnceInRegistrationOrder ==
    [][\A p \in Proc, w \in WS, id \in Ids, throwers \in SUBSET (1..MaxHandlers) :
          Open(p, w, id, throwers)
          => /\ \A k \in 1..Len(handlers[p]) :
                   Cardinality({ n \in 1..Len(invoked'[w]) :
                                    invoked'[w][n] = handlers[p][k] }) = 1
             /\ \A i, j \in 1..Len(invoked'[w]) :
                   i < j => invoked'[w][i] < invoked'[w][j]]_vars

C15_HeartbeatNeverStops == \A p \in Proc : timers[p] > 0

\* ---------------------------------------------------------------- removed connections
\* C16: what concerns a connection that is no longer in the registry never
\* faults: a message whose identity has no entry is logged and changes
\* nothing else, a close whose identity has no entry leaves the registry as
\* it is, and no sweep throws because a connection was closed.
C16_RemovedNeverFaults ==
    /\ [][\A w \in WS :
             (Message(w) /\ connections[wsHost[w]][wsId[w]] = NoWS)
             => /\ console' = "unknownConnection"
                /\ UNCHANGED << connections, keys, wsVars, timers >>]_vars
    /\ [][\A w \in WS :
             (Close(w) /\ connections[wsHost[w]][wsId[w]] = NoWS)
             => UNCHANGED << connections, keys, console >>]_vars
    /\ [](console # "uncaughtTypeError")

\* ---------------------------------------------------------------- frame claims
\* A step of a callback or operation that is neither open, close nor the sweep.
OtherStep ==
    \/ \E w \in WS : Pong(w) \/ Message(w) \/ Drain(w)
    \/ \E p \in Proc : OnConnection(p)
    \/ \E p \in Proc, ok \in BOOLEAN :
          ToAll(p, ok) \/ \E g \in GroupNames : To(p, g, ok)
    \/ \E q \in Proc, item \in Items :
          OnRedisMessage(q, item) \/ OnRedisPMessage(q, item)

\* An open adds exactly the new identity to the registry of its process.
OpenAddsIdentity ==
    \A p \in Proc, w \in WS, id \in Ids, throwers \in SUBSET (1..MaxHandlers) :
        Open(p, w, id, throwers)
        => /\ connections'[p][id] = w
           /\ \A q \in Proc :
                 RegisteredIds(q)' = IF q = p THEN RegisteredIds(q) \cup {id}
                                              ELSE RegisteredIds(q)

\* A close removes exactly the identity of the closed connection.
CloseRemovesIdentity ==
    \A w \in WS :
        Close(w)
        => \A q \in Proc :
              RegisteredIds(q)' = IF q = wsHost[w] THEN RegisteredIds(q) \ {wsId[w]}
                                                  ELSE RegisteredIds(q)

\* C17 as claimed: only the open and the close callback change the set of
\* registered identities; the sweep, pong, message, drain, onConnection and
\* the broadcasts leave it unchanged.
C17_OnlyOpenAndCloseChange ==
    [][/\ OpenAddsIdentity
       /\ CloseRemovesIdentity
       /\ (OtherStep \/ \E p \in Proc : KeepAliveSockets(p))
          => \A q \in Proc : RegisteredIds(q)' = RegisteredIds(q)]_vars

\* A sweep removes exactly the identities of the connections it disconnects.
SweepRemovesDropped ==
    \A p \in Proc :
        KeepAliveSockets(p)
        => \A q \in Proc :
              RegisteredIds(q)' =
                 IF q = p
                 THEN RegisteredIds(q) \ { wsId[w] : w \in SweepDisconnected(p) }
                 ELSE RegisteredIds(q)

\* C17 as amended: a step that changes the registry is an open, which adds
\* exactly the new identity, a close, which removes exactly the closed
\* identity, or a sweep, which removes exactly the identities of the
\* connections it disconnects, through their close callback; it is no pong,
\* message, drain, onConnection or broadcast step. The keys of the registry
\* are the registered identities, each once.
C17_RegistryFrame ==
    /\ [][(connections' # connections \/ keys' # keys)
             => /\ ~OtherStep
                /\ OpenAddsIdentity
                /\ CloseRemovesIdentity
                /\ SweepRemovesDropped]_vars
    /\ [](\A p \in Proc :
             /\ { keys[p][k] : k \in 1..Len(keys[p]) } = RegisteredIds(p)
             /\ Len(keys[p]) = Cardinality(RegisteredIds(p)))

\* Witness of C17: handlers are registered, a broadcast was made, a sweep has
\* disconnected one connection and pinged another that is still registered.
C17_Witness ==
    /\ Len(calls) = 1
    /\ \E p \in Proc : Len(handlers[p]) > 0
    /\ \E v, w \in WS :
          /\ closedBy[v] = "heartbeat"
          /\ Registered(w) /\ Owes(w)

\* ---------------------------------------------------------------- timer claims
\* C18: no provider ever has more than one sweep pending, and a sweep that
\* has processed all connections leaves exactly one successor scheduled. A
\* sweep is one callback of the event loop, so none runs while another does.
C18_AtMostOneSweepPending ==
    /\ [](\A p \in Proc : timers[p] \in {0, 1})
    /\ [][\A p \in Proc :
             (KeepAliveSockets(p)
              \/ \E closers \in SUBSET WS :
                    KeepAliveSocketsClosing(p, closers) /\ ~Sweep(p, closers).threw)
             => timers[p] = 1 /\ timers'[p] = 1]_vars

\* Witness of C18: a sweep has run, pinged a connection and disconnected
\* another, and one sweep is pending again.
C18_Witness ==
    \E v, w \in WS :
        /\ Registered(w) /\ Owes(w)
        /\ timers[wsHost[w]] = 1
        /\ closedBy[v] = "heartbeat"
        /\ probe[w] = "sentAgain"

\* ---------------------------------------------------------------- liveness flag claims
\* A step of the message or drain callback, of a broadcast or of a relay.
DataStep ==
    \/ \E w \in WS : Message(w) \/ Drain(w)
    \/ \E p \in Proc, ok \in BOOLEAN :
          ToAll(p, ok) \/ \E g \in GroupNames : To(p, g, ok)
    \/ \E q \in Proc, item \in Items :
          OnRedisMessage(q, item) \/ OnRedisPMessage(q, item)

\* C19: ws.alive of a connection becomes true only in its open or pong
\* callback and, while the connection is open, false only in a sweep of its
\* process; no message, drain, broadcast or relay step changes a flag, so a
\* sweep disconnects the registered connection whose flag is still false
\* whatever data frames it has sent.
C19_AliveFrame ==
    [][/\ (wsAlive' # wsAlive \/ probe' # probe)
          => /\ ~DataStep
             /\ \A w \in WS :
                   /\ (~wsAlive[w] /\ wsAlive'[w])
                      => (wsState[w] = "new" /\ wsState'[w] = "open") \/ Pong(w)
                   /\ (wsAlive[w] /\ ~wsAlive'[w] /\ wsState'[w] = "open")
                      => KeepAliveSockets(wsHost[w])
       /\ \A w \in WS :
             (/\ Registered(w)
              /\ ~wsAlive[w]
              /\ KeepAliveSockets(wsHost[w]))
             => wsState'[w] = "closed" /\ closedBy'[w] = "heartbeat"]_vars

\* Witness of C19: a broadcast was delivered to a connection whose ping is
\* unanswered, and its flag is still false.
C19_Witness ==
    \E w \in WS, m \in 1..Len(calls) :
        /\ wsState[w] = "open"
        /\ probe[w] = "sent"
        /\ ~wsAlive[w]
        /\ received[w][m] = 1

====
